---------------------------- MODULE Spec2Model ----------------------------
(***************************************************************************)
(* A model of satphotometry's streak-photometry functions                  *)
(* (src/LEOphotometry.py): img_mask, count_1d, gauss_fitting, photometry.  *)
(*                                                                         *)
(* The functions are pure, so the state is one call: the function called   *)
(* (op), its arguments (args), the position in the call (pc), the values   *)
(* of its local names (locals), the record of the nonlinear solver's use   *)
(* (solver) and what the call gave back to its caller (ret).               *)
(*                                                                         *)
(* Real numbers are exact rationals <<n, d>> with d > 0 in lowest terms;   *)
(* binary floating-point rounding is not modelled.                         *)
(***************************************************************************)
EXTENDS Integers, Sequences, FiniteSets, TLC

VARIABLES op, args, pc, locals, solver, ret, env

vars == <<op, args, pc, locals, solver, ret, env>>

---------------------------------------------------------------------------
(* Bounds of the model. *)

\* images have 1..MaxRows rows
MaxRows == 3
\* and 1..MaxCols columns
MaxCols == 2
\* and at most MaxCells pixels
MaxCells == 6
\* pixel intensities are 0..MaxPixel
MaxPixel == 1
\* profiles given to gauss_fitting have 1..MaxLen samples
MaxLen == 4
\* the solver's centre mu is k/2 for k in -1..2*MaxMu
MaxMu == 3
\* the solver's width sigma is k/4 for k in -MaxSigma4..MaxSigma4, k # 0
MaxSigma4 == 3

---------------------------------------------------------------------------
(* Exact real arithmetic. *)

Abs(x) == IF x < 0 THEN -x ELSE x

RECURSIVE GCD(_, _)
GCD(a, b) == IF b = 0 THEN a ELSE GCD(b, a % b)

\* the rational n/d (d # 0) in lowest terms with a positive denominator
Rat(n, d) ==
    LET g == GCD(Abs(n), Abs(d))
        s == IF d < 0 THEN -1 ELSE 1
    IN  <<(s * n) \div g, (s * d) \div g>>

IntR(n) == <<n, 1>>

RAdd(x, y) == Rat(x[1] * y[2] + y[1] * x[2], x[2] * y[2])
RSub(x, y) == Rat(x[1] * y[2] - y[1] * x[2], x[2] * y[2])
RMul(x, y) == Rat(x[1] * y[1], x[2] * y[2])
\* x / y for y # 0
RDiv(x, y) == Rat(x[1] * y[2], x[2] * y[1])
RLt(x, y) == x[1] * y[2] < y[1] * x[2]
RLe(x, y) == x[1] * y[2] <= y[1] * x[2]

\* Python's int(x) of a finite float: the fractional part is dropped
PyInt_floor(x) == x[1] \div x[2]
PyInt_round(x) == (2 * x[1] + x[2]) \div (2 * x[2])
PyInt(x) == IF x[1] >= 0 THEN x[1] \div x[2] ELSE -((-x[1]) \div x[2])

---------------------------------------------------------------------------
(* Python and numpy helpers. *)

\* range(a, b) as a sequence
PyRange(a, b) == [k \in 1..(IF b > a THEN b - a ELSE 0) |-> a + k - 1]

\* whether x[i] is defined for a sequence or array axis of length n
IndexOK(i, n) == -n <= i /\ i < n

\* the 0-based position x[i] reads: a negative index counts from the end
NormIndex(i, n) == IF i < 0 THEN i + n ELSE i

RECURSIVE SumSeq(_)
SumSeq(s) == IF Len(s) = 0 THEN 0 ELSE s[1] + SumSeq(Tail(s))

\* np.sum of the rows rows[1..] of a 2-D array
RECURSIVE SumRows(_)
SumRows(rows) == IF Len(rows) = 0 THEN 0 ELSE SumSeq(rows[1]) + SumRows(Tail(rows))

NRows(image_data) == Len(image_data)
NCols(image_data) == Len(image_data[1])

---------------------------------------------------------------------------
(* Results of a call. *)

NoRet == [kind |-> "none", error |-> "", value |-> <<>>]
Return(v) == [kind |-> "return", error |-> "", value |-> v]
Raise(e) == [kind |-> "raise", error |-> e, value |-> <<>>]

NoLocals == [none |-> TRUE]
\* the world outside the call: files and processes (none for the functions
\* that only compute)
NoEnv == [none |-> TRUE]
NoSolver == [calls |-> 0, maxfev |-> 0, p0 |-> <<>>, outcome |-> "none"]

---------------------------------------------------------------------------
(* radec_to_pixel (Sky-to-Pixel Projector). *)

\* line 52: SkyCoord refuses a declination outside -90..90 degrees
SkyCoordOK(ra_deg, dec_deg) == -90 <= dec_deg /\ dec_deg <= 90

\* line 54, wcs_obj.world_to_pixel: the mapping is the caller's; here a
\* linear one, crpix + sky/cdelt on each axis, that may fail to converge
world_to_pixel(wcs_obj, ra_deg, dec_deg) ==
    IF wcs_obj.converges
    THEN Return(<<RAdd(wcs_obj.crpix[1], RDiv(IntR(ra_deg), wcs_obj.cdelt)),
                  RAdd(wcs_obj.crpix[2], RDiv(IntR(dec_deg), wcs_obj.cdelt))>>)
    ELSE Raise("NoConvergence")

\* lines 55-57: origin 1 adds one to a pixel coordinate
OriginShift_subtract(origin, v) == IF origin = 1 THEN RSub(v, IntR(1)) ELSE v
OriginShift(origin, v) == IF origin = 1 THEN RAdd(v, IntR(1)) ELSE v

radec_to_pixel(ra_deg, dec_deg, wcs_obj, origin) ==
    IF ~SkyCoordOK(ra_deg, dec_deg) THEN Raise("ValueError")
    ELSE LET pix == world_to_pixel(wcs_obj, ra_deg, dec_deg)
         IN  IF pix.kind = "raise" THEN pix
             ELSE Return(<<OriginShift(origin, pix.value[1]),
                           OriginShift(origin, pix.value[2])>>)

---------------------------------------------------------------------------
(* photometry (Flux Integrator). *)

\* the zeropoint argument: None, the string "NaN", a number, or a float nan
ZNone == [tag |-> "None", v |-> 0]
ZStrNaN == [tag |-> "str", v |-> 0]
ZNum(z) == [tag |-> "num", v |-> z]
ZFloatNaN == [tag |-> "nan", v |-> 0]

\* magnitudes: None, nan, +inf, or the number -2.5*log10(arg) + zp
MagNone == [tag |-> "None", arg |-> <<0, 1>>, zp |-> 0]
MagNaN == [tag |-> "nan", arg |-> <<0, 1>>, zp |-> 0]
MagInf == [tag |-> "inf", arg |-> <<0, 1>>, zp |-> 0]
MagNum(c, z) == [tag |-> "num", arg |-> c, zp |-> z]

\* -2.5*np.log10(count) + zeropoint on numpy floats: log10 of a negative
\* number is nan and of zero is -inf (a warning, no exception)
Magnitude(count, zeropoint) ==
    IF zeropoint.tag = "nan" \/ count[1] < 0 THEN MagNaN
    ELSE IF count[1] = 0 THEN MagInf
    ELSE MagNum(count, zeropoint.v)

\* zeropoint is None or zeropoint == "NaN"
ZeropointUnavailable_noSentinel(zeropoint) == zeropoint.tag = "None"
ZeropointUnavailable(zeropoint) == zeropoint.tag = "None" \/ zeropoint.tag = "str"

\* the indices of line 195: range(range_min, range_max+1)
StreakIndices(range_min, range_max) == PyRange(range_min, range_max + 1)

\* the indices of line 196: chain(range(0, range_min), range(range_max+1, n))
OffIndices_overlap(range_min, range_max, n) ==
    PyRange(0, range_min) \o PyRange(range_max, n)
OffIndices(range_min, range_max, n) ==
    PyRange(0, range_min) \o PyRange(range_max + 1, n)

\* len(region)*len(region[0])
PixelCount_rowsOnly(nrows, ncols) == nrows
PixelCount(nrows, ncols) == nrows * ncols

\* the default of the parameter arc_per_pix, in hundredths
DefaultArcPerPix100 == 27

\* an argument the call leaves out
Omitted == <<0, 0>>

\* line 163: arc_per_pix = 0.27 unless the call supplies it
DefaultArcPerPix_one == IntR(1)
DefaultArcPerPix == Rat(DefaultArcPerPix100, 100)
BindArcPerPix(arc_per_pix) ==
    IF arc_per_pix = Omitted THEN DefaultArcPerPix ELSE arc_per_pix

\* line 200: the mean count of the off-streak region
BackgroundLevel_total(sum_off_region, pixel_off_region) == IntR(sum_off_region)
BackgroundLevel(sum_off_region, pixel_off_region) == Rat(sum_off_region, pixel_off_region)

photometry(image_data, range_min, range_max, arc_per_pix, zeropoint) ==
    LET n == NRows(image_data)
        streak_ix == StreakIndices(range_min, range_max)
        off_ix == OffIndices(range_min, range_max, n)
        streak_rows == [k \in 1..Len(streak_ix) |-> NormIndex(streak_ix[k], n)]
        off_rows == [k \in 1..Len(off_ix) |-> NormIndex(off_ix[k], n)]
        loc == [streak_rows |-> streak_rows, off_rows |-> off_rows]
        fail(e) == [ret |-> Raise(e), locals |-> NoLocals]
    IN  IF \E k \in 1..Len(streak_ix) : ~IndexOK(streak_ix[k], n)
        THEN fail("IndexError")
        ELSE IF \E k \in 1..Len(off_ix) : ~IndexOK(off_ix[k], n)
        THEN fail("IndexError")
        ELSE IF Len(off_ix) = 0
        THEN fail("IndexError")
        ELSE IF Len(streak_ix) = 0
        THEN fail("IndexError")
        ELSE
        LET streak_region_data == [k \in 1..Len(streak_rows) |-> image_data[streak_rows[k] + 1]]
            off_region_data == [k \in 1..Len(off_rows) |-> image_data[off_rows[k] + 1]]
            sum_off_region == SumRows(off_region_data)
            pixel_off_region == PixelCount(Len(off_region_data), Len(off_region_data[1]))
            pixcount_off_region == BackgroundLevel(sum_off_region, pixel_off_region)
            pixel_streak_region == PixelCount(Len(streak_region_data), Len(streak_region_data[1]))
            sum_streak_region ==
                RSub(IntR(SumRows(streak_region_data)),
                     RMul(pixcount_off_region, IntR(pixel_streak_region)))
            count_pix2 == RDiv(sum_streak_region, IntR(pixel_streak_region))
            count_arc2 == RDiv(count_pix2, RMul(arc_per_pix, arc_per_pix))
            mags == IF ZeropointUnavailable(zeropoint)
                    THEN <<MagNone, MagNone>>
                    ELSE <<Magnitude(count_pix2, zeropoint), Magnitude(count_arc2, zeropoint)>>
        IN  [ret |-> Return([count_pix2 |-> count_pix2, count_arc2 |-> count_arc2,
                             mag_pix2 |-> mags[1], mag_arc2 |-> mags[2]]),
             locals |-> loc]

---------------------------------------------------------------------------
(* img_mask (Background Masker). *)

\* the threshold argument: None or a number
TNone == [tag |-> "None", v |-> <<0, 1>>, mean |-> <<0, 1>>, var |-> <<0, 1>>]
TNum(t) == [tag |-> "num", v |-> t, mean |-> <<0, 1>>, var |-> <<0, 1>>]
\* the number mean + 3*sqrt(var), kept exact
TAuto(m, v) == [tag |-> "auto", v |-> <<0, 1>>, mean |-> m, var |-> v]

\* all pixels of a 2-D array, row by row
RECURSIVE Flatten(_)
Flatten(image_data) ==
    IF Len(image_data) = 0 THEN <<>> ELSE image_data[1] \o Flatten(Tail(image_data))

\* np.mean(image_data)
Mean(image_data) == Rat(SumRows(image_data), NRows(image_data) * NCols(image_data))

RECURSIVE SumSqDev(_, _)
SumSqDev(s, m) ==
    IF Len(s) = 0 THEN <<0, 1>>
    ELSE LET d == RSub(IntR(s[1]), m) IN RAdd(RMul(d, d), SumSqDev(Tail(s), m))

\* np.std(image_data)**2: the population variance
Variance(image_data) ==
    RDiv(SumSqDev(Flatten(image_data), Mean(image_data)),
         IntR(NRows(image_data) * NCols(image_data)))

\* np.mean(image_data) + 3*np.std(image_data)
AutoThreshold_reestimated(image_data) ==
    LET first == TAuto(Mean(image_data), Variance(image_data))
        below(x) == LET d == RSub(IntR(x), first.mean)
                    IN  ~(d[1] > 0 /\ RLt(RMul(IntR(9), first.var), RMul(d, d)))
        kept == SelectSeq(Flatten(image_data), below)
        m == Rat(SumSeq(kept), Len(kept))
    IN  TAuto(m, RDiv(SumSqDev(kept, m), IntR(Len(kept))))
AutoThreshold_halfMean(image_data) == TNum(RDiv(Mean(image_data), IntR(2)))
AutoThreshold(image_data) == TAuto(Mean(image_data), Variance(image_data))

\* threshold < x for a pixel x
ThresholdLess_orEqual(threshold, x) ==
    IF threshold.tag = "num" THEN RLe(threshold.v, IntR(x))
    ELSE LET d == RSub(IntR(x), threshold.mean)
         IN  d[1] >= 0 /\ RLe(RMul(IntR(9), threshold.var), RMul(d, d))
ThresholdLess(threshold, x) ==
    IF threshold.tag = "num" THEN RLt(threshold.v, IntR(x))
    ELSE LET d == RSub(IntR(x), threshold.mean)
         IN  d[1] > 0 /\ RLt(RMul(IntR(9), threshold.var), RMul(d, d))

img_mask(image_data, threshold) ==
    LET thr == IF threshold.tag = "None" THEN AutoThreshold(image_data) ELSE threshold
    IN  [data |-> image_data,
         mask |-> [i \in 1..NRows(image_data) |->
                     [j \in 1..NCols(image_data) |-> ThresholdLess(thr, image_data[i][j])]]]

---------------------------------------------------------------------------
(* count_1d (Axial Profiler). *)

\* profile values: a number, or numpy's masked value
CNum(x) == [tag |-> "num", v |-> x]
CMasked == [tag |-> "masked", v |-> <<0, 1>>]

\* line i along count_axis of a masked array, as <<value, masked>> pairs:
\* row i for count_axis = 1, column i for count_axis = 0
Line(masked_data, count_axis, i) ==
    IF count_axis = 1
    THEN [j \in 1..NCols(masked_data.data) |->
             <<masked_data.data[i][j], masked_data.mask[i][j]>>]
    ELSE [k \in 1..NRows(masked_data.data) |->
             <<masked_data.data[k][i], masked_data.mask[k][i]>>]

RECURSIVE UnmaskedSum(_)
UnmaskedSum(line) ==
    IF Len(line) = 0 THEN 0
    ELSE (IF line[1][2] THEN 0 ELSE line[1][1]) + UnmaskedSum(Tail(line))

RECURSIVE UnmaskedCount(_)
UnmaskedCount(line) ==
    IF Len(line) = 0 THEN 0
    ELSE (IF line[1][2] THEN 0 ELSE 1) + UnmaskedCount(Tail(line))

RECURSIVE PlainSum(_)
PlainSum(line) == IF Len(line) = 0 THEN 0 ELSE line[1][1] + PlainSum(Tail(line))

\* np.ma.mean of one line: masked entries leave both the sum and the divisor
LineMean_ignoringMask(line) == CNum(Rat(PlainSum(line), Len(line)))
LineMean_zeroWhenEmpty(line) ==
    IF UnmaskedCount(line) = 0 THEN CNum(<<0, 1>>)
    ELSE CNum(Rat(UnmaskedSum(line), UnmaskedCount(line)))
LineMean(line) ==
    IF UnmaskedCount(line) = 0 THEN CMasked
    ELSE CNum(Rat(UnmaskedSum(line), UnmaskedCount(line)))

count_1d(masked_data, count_axis) ==
    LET n == IF count_axis = 1 THEN NRows(masked_data.data) ELSE NCols(masked_data.data)
        counts == [i \in 1..n |-> LineMean(Line(masked_data, count_axis, i))]
        coordinates == [k \in 1..Len(counts) |-> k - 1]
    IN  [counts |-> counts, coordinates |-> coordinates]

---------------------------------------------------------------------------
(* gauss_fitting (Peak-Extent Fitter). *)

\* the value a*exp(-(x-mu)**2/(2*sigma**2)) + b, kept as its exact terms
gauss_func(x, a, mu, sigma, b) ==
    LET d == RSub(x, mu)
    IN  [amp |-> a,
         exponent |-> RDiv(RSub(<<0, 1>>, RMul(d, d)), RMul(IntR(2), RMul(sigma, sigma))),
         offset |-> b]

\* counts.max()
RECURSIVE SeqMax(_)
SeqMax(s) ==
    IF Len(s) = 1 THEN s[1]
    ELSE LET m == SeqMax(Tail(s)) IN IF s[1] >= m THEN s[1] ELSE m

\* counts.argmax(): the first position of the maximum, counted from 0
ArgMax(s) == (CHOOSE i \in 1..Len(s) : s[i] = SeqMax(s) /\ \A k \in 1..(i - 1) : s[k] # s[i]) - 1

RECURSIVE Insert(_, _)
Insert(x, s) ==
    IF Len(s) = 0 THEN <<x>>
    ELSE IF x <= s[1] THEN <<x>> \o s
    ELSE <<s[1]>> \o Insert(x, Tail(s))

RECURSIVE Sorted(_)
Sorted(s) == IF Len(s) = 0 THEN <<>> ELSE Insert(s[1], Sorted(Tail(s)))

\* np.median(counts)
Median(s) ==
    LET t == Sorted(s)
        n == Len(s)
    IN  IF n % 2 = 1 THEN IntR(t[(n + 1) \div 2])
        ELSE Rat(t[n \div 2] + t[n \div 2 + 1], 2)

\* line 145: the solver's seed
param_ini_meanCenter(counts) ==
    <<IntR(SeqMax(counts)), Rat(Len(counts) - 1, 2), IntR(1), Median(counts)>>
param_ini(counts) == <<IntR(SeqMax(counts)), IntR(ArgMax(counts)), IntR(1), Median(counts)>>

\* line 146: the cap on the solver's function evaluations
maxfev == 1000

\* the number of fitted parameters: the solver refuses fewer samples
NParams == 4

\* line 146 has no handler: an error of the solver ends the call
OnFitError_retry(e) == [pc |-> "call", ret |-> NoRet]
OnFitError(e) == [pc |-> "done", ret |-> Raise(e)]

\* lines 149-150
Extent_outward(popt) ==
    LET lo == RSub(popt[2], RMul(IntR(3), popt[3]))
        hi == RAdd(popt[2], RMul(IntR(3), popt[3]))
    IN  [range_min |-> PyInt_floor(lo), range_max |-> -PyInt_floor(<<-hi[1], hi[2]>>)]
Extent(popt) ==
    [range_min |-> PyInt(RSub(popt[2], RMul(IntR(3), popt[3]))),
     range_max |-> PyInt(RAdd(popt[2], RMul(IntR(3), popt[3])))]

\* lines 152-159: plt is the package matplotlib, which has no figure()
\* function: the attribute is missing, or is the submodule matplotlib.figure
DispErrors == {"AttributeError", "TypeError"}

---------------------------------------------------------------------------
(* Inputs. *)

Pixels == 0..MaxPixel

Dims == {d \in (1..MaxRows) \X (1..MaxCols) : d[1] * d[2] <= MaxCells}

Images == UNION {[1..d[1] -> [1..d[2] -> Pixels]] : d \in Dims}

\* the image of the documented example: 100 rows of 20 columns, value 110
\* on rows 40..60 and 10 elsewhere
ExampleImage == [i \in 1..100 |-> [j \in 1..20 |-> IF i - 1 \in 40..60 THEN 110 ELSE 10]]

ArcPerPix == {Rat(DefaultArcPerPix100, 100), IntR(2)}

Zeropoints == {ZNone, ZStrNaN, ZNum(25), ZFloatNaN}

\* the extents tried on an image of n rows: every pair from -(n+1) to n
ExtentEnds(n) == (-(n + 1))..n

\* arc_per_pix is supplied or left out
IsPhotometryArgs(a) ==
    \/ \E im \in Images : \E lo, hi \in ExtentEnds(NRows(im)) :
          \E s \in ArcPerPix \cup {Omitted} : \E z \in Zeropoints :
             a = [image_data |-> im, range_min |-> lo, range_max |-> hi,
                  arc_per_pix |-> s, zeropoint |-> z]
    \/ \E s \in ArcPerPix \cup {Omitted} : \E z \in Zeropoints :
          a = [image_data |-> ExampleImage, range_min |-> 40, range_max |-> 60,
               arc_per_pix |-> s, zeropoint |-> z]

\* None, and the halves from -1/2 to MaxPixel + 1/2
Thresholds == {TNone} \cup {TNum(Rat(k, 2)) : k \in -1..(2 * MaxPixel + 1)}

\* larger images with outliers: 2 rows of 6 pixels, all 0 but the first
\* two of the first row (a pixel is above mean + 3*std only among more than
\* 10 pixels)
OutlierImages ==
    {[i \in 1..2 |-> [j \in 1..6 |-> IF i = 1 /\ j <= 2 THEN v[j] ELSE 0]] :
        v \in {<<1, 0>>, <<20, 1>>}}

ImgMaskArgs ==
    {[image_data |-> im, threshold |-> t] :
        im \in Images \cup OutlierImages, t \in Thresholds}

\* every mask of the shape of an image
Masks(im) == [1..NRows(im) -> [1..NCols(im) -> BOOLEAN]]

\* count_1d takes any masked array: the results of img_mask are among them
IsCount1dArgs(a) ==
    \E im \in Images : \E mk \in Masks(im) : \E ax \in {0, 1} :
       a = [image_data |-> [data |-> im, mask |-> mk], count_axis |-> ax]

\* sky coordinates in degrees, one with a declination that does not exist
RaDegs == {0, 5}
DecDegs == {-5, 0, 100}

WcsObjs ==
    {[crpix |-> <<IntR(x), IntR(y)>>, cdelt |-> c, converges |-> b] :
        x \in {0, 5}, y \in {0, 5}, c \in {Rat(1, 2), IntR(-2)}, b \in BOOLEAN}

\* origin: 0, 1, or another integer
Origins == {0, 1, 2}

RadecToPixelArgs ==
    {[ra_deg |-> r, dec_deg |-> d, wcs_obj |-> w, origin |-> o] :
        r \in RaDegs, d \in DecDegs, w \in WcsObjs, o \in Origins}

Profiles == UNION {[1..n -> Pixels] : n \in 1..MaxLen}

GaussFittingArgs ==
    {[counts |-> c, coordinates |-> [k \in 1..Len(c) |-> k - 1], disp |-> d] :
        c \in Profiles, d \in BOOLEAN}

\* what the solver may give back: any amplitude, centre, width and baseline;
\* it is called without bounds, so the width may be negative
Popts ==
    {<<IntR(a), Rat(m, 2), Rat(s, 4), IntR(0)>> :
        a \in {1, 2}, m \in -1..(2 * MaxMu), s \in (-MaxSigma4..MaxSigma4) \ {0}}

\* and, as the solver works in floating point, parameters at and beside those
\* of the documented example (a, mu, sigma, b) = (100, 50, 3, 10): the centre
\* off by 1/20 or the width off by 1/400, both within 1e-3 of the exact ones
NearExamplePopts ==
    {<<IntR(100), Rat(1000 + i, 20), IntR(3), IntR(10)>> : i \in -1..1}
        \cup {<<IntR(100), IntR(50), Rat(1200 + j, 400), IntR(10)>> : j \in -1..1}

---------------------------------------------------------------------------
(* The caller's objects. *)

\* the objects a function writes in place: the only such statements of the
\* module are the additions of lines 56-57, on the arrays that world_to_pixel
\* returned; no function assigns into an element or attribute of a parameter
InPlaceTargets_parameters(f) == IF f = "radec_to_pixel" THEN {"ra_deg", "dec_deg"} ELSE {}
InPlaceTargets(f) == IF f = "radec_to_pixel" THEN {"x_pix", "y_pix"} ELSE {}

\* the arguments a of function f as the caller finds them after the in-place
\* statements of f have run
InputsAfterCall(f, a) ==
    [n \in DOMAIN a |-> IF n \in InPlaceTargets(f) THEN a[n] + 1 ELSE a[n]]

---------------------------------------------------------------------------
(* The calls. *)

Init ==
    /\ \/ op = "photometry" /\ IsPhotometryArgs(args)
       \/ op = "img_mask" /\ args \in ImgMaskArgs
       \/ op = "count_1d" /\ IsCount1dArgs(args)
       \/ op = "gauss_fitting" /\ args \in GaussFittingArgs
       \/ op = "radec_to_pixel" /\ args \in RadecToPixelArgs
    /\ pc = "call"
    /\ locals = NoLocals
    /\ solver = NoSolver
    /\ ret = NoRet
    /\ env = NoEnv

RadecToPixel ==
    /\ pc = "call"
    /\ op = "radec_to_pixel"
    /\ ret' = radec_to_pixel(args.ra_deg, args.dec_deg, args.wcs_obj, args.origin)
    /\ args' = IF args.origin = 1 /\ ret'.kind = "return"
               THEN InputsAfterCall(op, args) ELSE args
    /\ pc' = "done"
    /\ UNCHANGED <<op, locals, solver, env>>

Photometry ==
    /\ pc = "call"
    /\ op = "photometry"
    /\ LET r == photometry(args.image_data, args.range_min, args.range_max,
                           BindArcPerPix(args.arc_per_pix), args.zeropoint)
       IN  /\ ret' = r.ret
           /\ locals' = r.locals
    /\ pc' = "done"
    /\ args' = InputsAfterCall(op, args)
    /\ UNCHANGED <<op, solver, env>>

ImgMask ==
    /\ pc = "call"
    /\ op = "img_mask"
    /\ ret' = Return(img_mask(args.image_data, args.threshold))
    /\ pc' = "done"
    /\ args' = InputsAfterCall(op, args)
    /\ UNCHANGED <<op, locals, solver, env>>

Count1d ==
    /\ pc = "call"
    /\ op = "count_1d"
    /\ ret' = Return(count_1d(args.image_data, args.count_axis))
    /\ pc' = "done"
    /\ args' = InputsAfterCall(op, args)
    /\ UNCHANGED <<op, locals, solver, env>>

\* lines 145-146, the solver refusing its input: fewer samples than parameters
CurveFitImproperInput ==
    /\ pc = "call"
    /\ op = "gauss_fitting"
    /\ Len(args.counts) < NParams
    /\ solver' = [calls |-> solver.calls + 1, maxfev |-> maxfev,
                p0 |-> param_ini(args.counts), outcome |-> "improper"]
    /\ pc' = OnFitError("TypeError").pc
    /\ ret' = OnFitError("TypeError").ret
    /\ locals' = [param_ini |-> param_ini(args.counts)]
    /\ args' = InputsAfterCall(op, args)
    /\ UNCHANGED <<op, env>>

\* lines 145-146, the solver converging to some parameters
CurveFitConverged ==
    /\ pc = "call"
    /\ op = "gauss_fitting"
    /\ Len(args.counts) >= NParams
    /\ \E popt \in Popts \cup NearExamplePopts :
          locals' = [param_ini |-> param_ini(args.counts), popt |-> popt]
    /\ solver' = [calls |-> solver.calls + 1, maxfev |-> maxfev,
                p0 |-> param_ini(args.counts), outcome |-> "converged"]
    /\ pc' = "fitted"
    /\ args' = InputsAfterCall(op, args)
    /\ UNCHANGED <<op, ret, env>>

\* lines 145-146, the solver giving up at the cap: RuntimeError
CurveFitNotConverged ==
    /\ pc = "call"
    /\ op = "gauss_fitting"
    /\ Len(args.counts) >= NParams
    /\ solver' = [calls |-> solver.calls + 1, maxfev |-> maxfev,
                p0 |-> param_ini(args.counts), outcome |-> "maxfev"]
    /\ pc' = OnFitError("RuntimeError").pc
    /\ ret' = OnFitError("RuntimeError").ret
    /\ locals' = [param_ini |-> param_ini(args.counts)]
    /\ args' = InputsAfterCall(op, args)
    /\ UNCHANGED <<op, env>>

\* lines 147-161
GaussFittingFinish ==
    /\ pc = "fitted"
    /\ op = "gauss_fitting"
    /\ LET popt == locals.popt
           fitting == [k \in 1..Len(args.coordinates) |->
                          gauss_func(IntR(args.coordinates[k]),
                                     popt[1], popt[2], popt[3], popt[4])]
           e == Extent(popt)
       IN  IF args.disp
           THEN \E err \in DispErrors : ret' = Raise(err)
           ELSE ret' = Return([popt |-> popt, fitting |-> fitting,
                               range_min |-> e.range_min, range_max |-> e.range_max])
    /\ pc' = "done"
    /\ args' = InputsAfterCall(op, args)
    /\ UNCHANGED <<op, locals, solver, env>>

\* the caller calls the function again on the same objects
CallAgain ==
    /\ pc = "done"
    /\ pc' = "call"
    /\ locals' = NoLocals
    /\ solver' = NoSolver
    /\ ret' = NoRet
    /\ UNCHANGED <<op, args, env>>

Next ==
    \/ CallAgain
    \/ RadecToPixel
    \/ Photometry
    \/ ImgMask
    \/ Count1d
    \/ CurveFitImproperInput
    \/ CurveFitConverged
    \/ CurveFitNotConverged
    \/ GaussFittingFinish

Spec == Init /\ [][Next]_vars

---------------------------------------------------------------------------
(* Properties of photometry. *)

PhotometryDone == op = "photometry" /\ pc = "done"
PhotometryReturned == op = "photometry" /\ ret.kind = "return"

\* how many times row i (counted from 0) occurs in a region
Occurrences(rows, i) == Cardinality({k \in 1..Len(rows) : rows[k] = i})

\* C1: whenever photometry returns a result, every row 0..N-1 is in exactly
\* one of the two regions, and the streak region is exactly the rows
\* range_min..range_max
C1_RowsPartitioned ==
    PhotometryReturned =>
        \A i \in 0..(NRows(args.image_data) - 1) :
            /\ Occurrences(locals.streak_rows, i) + Occurrences(locals.off_rows, i) = 1
            /\ Occurrences(locals.streak_rows, i) = 1
                   <=> (args.range_min <= i /\ i <= args.range_max)

\* the sum of the pixels of the rows k-1 (k from `from` on) that lie inside
\* lo..hi (inside = TRUE) or outside it (inside = FALSE)
RECURSIVE RegionSum(_, _, _, _, _)
RegionSum(image_data, from, lo, hi, inside) ==
    IF from > Len(image_data) THEN 0
    ELSE (IF ((lo <= from - 1 /\ from - 1 <= hi) <=> inside)
          THEN SumSeq(image_data[from]) ELSE 0)
         + RegionSum(image_data, from + 1, lo, hi, inside)

\* the extent lies in the image and leaves at least one off-streak row
ValidExtent ==
    /\ 0 <= args.range_min
    /\ args.range_min <= args.range_max
    /\ args.range_max <= NRows(args.image_data) - 1
    /\ args.range_max - args.range_min + 1 < NRows(args.image_data)

\* C2: for a valid extent photometry returns, and count_pix2 is the mean of
\* the pixels of rows range_min..range_max minus the mean of the pixels of
\* the other rows; on the documented example it is exactly 100
C2_CountPix2IsMeanDifference ==
    (PhotometryDone /\ ValidExtent) =>
        LET im == args.image_data
            w == NCols(im)
            nin == args.range_max - args.range_min + 1
            nout == NRows(im) - nin
            meanin == Rat(RegionSum(im, 1, args.range_min, args.range_max, TRUE), nin * w)
            meanout == Rat(RegionSum(im, 1, args.range_min, args.range_max, FALSE), nout * w)
        IN  /\ ret.kind = "return"
            /\ ret.value.count_pix2 = RSub(meanin, meanout)
            /\ im = ExampleImage => ret.value.count_pix2 = <<100, 1>>

C2_Witness ==
    /\ PhotometryReturned
    /\ args.image_data = ExampleImage
    /\ ret.value.count_pix2 = <<100, 1>>

\* C7: in every result of photometry both magnitudes are None exactly when
\* zeropoint is None or the string "NaN", they are None together, and the
\* two counts are those of the call without zeropoint
C7_MagnitudesNoneIffNoZeropoint ==
    PhotometryReturned =>
        LET plain == photometry(args.image_data, args.range_min, args.range_max,
                                BindArcPerPix(args.arc_per_pix), ZNone).ret
        IN  /\ (ret.value.mag_pix2 = MagNone)
                   <=> (args.zeropoint.tag \in {"None", "str"})
            /\ (ret.value.mag_pix2 = MagNone) <=> (ret.value.mag_arc2 = MagNone)
            /\ plain.kind = "return"
            /\ ret.value.count_pix2 = plain.value.count_pix2
            /\ ret.value.count_arc2 = plain.value.count_arc2

C7_Witness ==
    /\ PhotometryReturned
    /\ args.zeropoint = ZStrNaN
    /\ ret.value.mag_pix2 = MagNone
    /\ ret.value.mag_arc2 = MagNone

\* C8: photometry returns no result when a numeric zeropoint is supplied and
\* the background-subtracted brightness count_pix2 is <= 0 (stated here for
\* the extents that lie in the image, where count_pix2 is the brightness)
C8_NonPositiveBrightnessRaises ==
    (PhotometryReturned /\ ValidExtent /\ args.zeropoint.tag = "num") =>
        ret.value.count_pix2[1] > 0

\* C9: photometry ends with an error, and no result, whenever the streak
\* partition is empty (range_min > range_max) or the off-streak partition is
\* empty (range_min = 0 and range_max = N-1)
C9_EmptyPartitionRaises ==
    (/\ PhotometryDone
     /\ \/ args.range_min > args.range_max
        \/ args.range_min = 0 /\ args.range_max = NRows(args.image_data) - 1)
        => (ret.kind = "raise" /\ ret.value = <<>>)

C9_Witness ==
    /\ PhotometryDone
    /\ args.range_min = 0
    /\ args.range_max = NRows(args.image_data) - 1
    /\ NRows(args.image_data) > 1
    /\ ret.kind = "raise"

\* C18: in every result of photometry count_arc2 is count_pix2 divided by
\* the square of the plate scale, and a call that leaves arc_per_pix out ends
\* as the same call with arc_per_pix = 0.27
C18_CountArc2IsCountPix2OverArcSquared ==
    PhotometryDone =>
        LET arc == IF args.arc_per_pix = Omitted THEN Rat(27, 100) ELSE args.arc_per_pix
        IN  /\ ret.kind = "return" =>
                  RMul(ret.value.count_arc2, RMul(arc, arc)) = ret.value.count_pix2
            /\ args.arc_per_pix = Omitted =>
                  ret = photometry(args.image_data, args.range_min, args.range_max,
                                   Rat(27, 100), args.zeropoint).ret

\* a call without arc_per_pix whose brightness is not zero
C18_Witness ==
    /\ PhotometryReturned
    /\ args.arc_per_pix = Omitted
    /\ ret.value.count_pix2[1] # 0
    /\ ret.value.count_arc2 = RDiv(ret.value.count_pix2, Rat(729, 10000))

---------------------------------------------------------------------------
(* Properties of gauss_fitting. *)

GaussFittingReturned == op = "gauss_fitting" /\ ret.kind = "return"

\* r is the real x with its fractional part dropped
IsTruncationOf(r, x) ==
    IF x[1] >= 0
    THEN r >= 0 /\ r * x[2] <= x[1] /\ x[1] < (r + 1) * x[2]
    ELSE r <= 0 /\ (r - 1) * x[2] < x[1] /\ x[1] <= r * x[2]

FittedLow == RSub(ret.value.popt[2], RMul(IntR(3), ret.value.popt[3]))
FittedHigh == RAdd(ret.value.popt[2], RMul(IntR(3), ret.value.popt[3]))

\* C3: after a successful fit, range_min is mu - 3*sigma and range_max is
\* mu + 3*sigma of the solver's parameters, each with its fractional part
\* dropped
C3_ExtentTruncated ==
    GaussFittingReturned =>
        /\ ret.value.popt = locals.popt
        /\ IsTruncationOf(ret.value.range_min, FittedLow)
        /\ IsTruncationOf(ret.value.range_max, FittedHigh)

\* a negative fractional lower end (truncation is not the floor) and an upper
\* end whose fraction is at least one half (truncation is not rounding)
C3_Witness ==
    /\ GaussFittingReturned
    /\ FittedLow[1] < 0
    /\ FittedLow[2] # 1
    /\ ret.value.range_min * FittedLow[2] > FittedLow[1]
    /\ FittedHigh[1] > 0
    /\ 2 * (FittedHigh[1] % FittedHigh[2]) >= FittedHigh[2]
    /\ ret.value.range_max * FittedHigh[2] < FittedHigh[1]

\* C4: every extent gauss_fitting returns has range_min <= range_max
C4_ExtentOrdered ==
    GaussFittingReturned => ret.value.range_min <= ret.value.range_max

\* C10: gauss_fitting calls the solver once, with a cap of 1000 function
\* evaluations; when the solver does not converge within the cap the call
\* ends at once with that error and gives back no parameters and no extent
C10_OneSolverCallFailurePropagates ==
    op = "gauss_fitting" =>
        /\ solver.calls = (IF pc = "call" THEN 0 ELSE 1)
        /\ pc # "call" => solver.maxfev = 1000
        /\ solver.outcome = "maxfev" =>
              pc = "done" /\ ret = Raise("RuntimeError") /\ ret.value = <<>>

C10_Witness ==
    /\ op = "gauss_fitting"
    /\ solver.outcome = "maxfev"
    /\ solver.calls = 1
    /\ ret.kind = "raise"

\* what gauss_fitting gives back without the display, for the same fit
ResultWithoutDisplay ==
    LET popt == locals.popt
        e == Extent(popt)
    IN  Return([popt |-> popt,
                fitting |-> [k \in 1..Len(args.coordinates) |->
                                gauss_func(IntR(args.coordinates[k]),
                                           popt[1], popt[2], popt[3], popt[4])],
                range_min |-> e.range_min, range_max |-> e.range_max])

\* C11: after a fit that succeeded, the call with disp=True gives back the
\* same popt, fitting, range_min and range_max as the call with disp=False:
\* the display neither changes nor prevents the result
C11_DisplayKeepsResult ==
    (op = "gauss_fitting" /\ pc = "done" /\ solver.outcome = "converged" /\ args.disp)
        => ret = ResultWithoutDisplay

\* v is within the relative tolerance 1e-3 of the positive integer target
WithinTolerance(v, target) == 1000 * Abs(v[1] - target * v[2]) <= target * v[2]

\* a fit that recovered the parameters of the documented example
RecoveredExample ==
    /\ GaussFittingReturned
    /\ WithinTolerance(ret.value.popt[1], 100)
    /\ WithinTolerance(ret.value.popt[2], 50)
    /\ WithinTolerance(ret.value.popt[3], 3)
    /\ WithinTolerance(ret.value.popt[4], 10)

Fractional(x) == x[2] # 1

\* C13 as stated: after a successful fit in which mu - 3*sigma or
\* mu + 3*sigma is fractional, range_min >= mu - 3*sigma and
\* range_max <= mu + 3*sigma: the integer extent lies inside the real one
\* (stated here for the fits of positive width, whose real ends are ordered)
C13_ExtentNeverWidened ==
    (/\ GaussFittingReturned
     /\ RLt(IntR(0), ret.value.popt[3])
     /\ Fractional(FittedLow) \/ Fractional(FittedHigh)) =>
        /\ RLe(FittedLow, IntR(ret.value.range_min))
        /\ RLe(IntR(ret.value.range_max), FittedHigh)

\* C13, amended: after a successful fit each end of the integer extent is
\* the real end moved toward zero by less than one pixel: an end that is
\* positive is moved down (range_min <= mu - 3*sigma, range_max <=
\* mu + 3*sigma) and an end that is negative is moved up
C13_ExtentEndsMovedTowardZero ==
    GaussFittingReturned =>
        LET lo == FittedLow
            hi == FittedHigh
            rmin == IntR(ret.value.range_min)
            rmax == IntR(ret.value.range_max)
        IN  /\ RLe(IntR(0), lo) => (RLe(rmin, lo) /\ RLt(RSub(lo, rmin), IntR(1)))
            /\ RLe(lo, IntR(0)) => (RLe(lo, rmin) /\ RLt(RSub(rmin, lo), IntR(1)))
            /\ RLe(IntR(0), hi) => (RLe(rmax, hi) /\ RLt(RSub(hi, rmax), IntR(1)))
            /\ RLe(hi, IntR(0)) => (RLe(hi, rmax) /\ RLt(RSub(rmax, hi), IntR(1)))

\* positive fractional ends: the extent is wider than the real interval at
\* its lower end and narrower at its upper end
C13_Witness ==
    /\ GaussFittingReturned
    /\ Fractional(FittedLow)
    /\ Fractional(FittedHigh)
    /\ RLt(IntR(0), ret.value.popt[3])
    /\ RLt(IntR(0), FittedLow)
    /\ RLt(IntR(ret.value.range_min), FittedLow)
    /\ RLt(IntR(ret.value.range_max), FittedHigh)

\* the k-th smallest value of s, k in 1..Len(s)
KthSmallest(s, k) ==
    CHOOSE v \in {s[i] : i \in 1..Len(s)} :
        /\ Cardinality({i \in 1..Len(s) : s[i] < v}) < k
        /\ k <= Cardinality({i \in 1..Len(s) : s[i] <= v})

\* the median of s: the middle value, or the mean of the two middle values
MiddleValue(s) ==
    LET n == Len(s)
    IN  IF n % 2 = 1 THEN IntR(KthSmallest(s, (n + 1) \div 2))
        ELSE Rat(KthSmallest(s, n \div 2) + KthSmallest(s, n \div 2 + 1), 2)

\* C16: for every profile the solver is called with the seed amplitude =
\* the maximum of the profile, centre = the index at which the maximum
\* (first) occurs, width = 1 and baseline = the median of the profile
C16_SolverSeed ==
    (op = "gauss_fitting" /\ pc # "call") =>
        LET counts == args.counts
            p0 == solver.p0
        IN  /\ Len(p0) = 4
            /\ p0[1][2] = 1
            /\ \A k \in 1..Len(counts) : counts[k] <= p0[1][1]
            /\ p0[2][2] = 1
            /\ p0[2][1] + 1 \in 1..Len(counts)
            /\ counts[p0[2][1] + 1] = p0[1][1]
            /\ \A k \in 1..p0[2][1] : counts[k] < p0[1][1]
            /\ p0[3] = IntR(1)
            /\ p0[4] = MiddleValue(counts)

\* a profile whose maximum occurs twice, away from the mean coordinate, and
\* whose median is not one of its values
C16_Witness ==
    /\ op = "gauss_fitting"
    /\ solver.outcome = "converged"
    /\ solver.p0[2] # Rat(Len(args.counts) - 1, 2)
    /\ Cardinality({k \in 1..Len(args.counts) : IntR(args.counts[k]) = solver.p0[1]}) = 2
    /\ solver.p0[4][2] # 1

---------------------------------------------------------------------------
(* Properties of img_mask. *)

\* C5: with an explicit threshold t, img_mask masks exactly the cells whose
\* value is strictly greater than t (a cell equal to t is not masked); the
\* mask has the shape of the input and the data are the input's
C5_MaskIsStrictlyAboveThreshold ==
    (op = "img_mask" /\ pc = "done" /\ args.threshold.tag = "num") =>
        LET im == args.image_data
            t == args.threshold.v
        IN  /\ ret.kind = "return"
            /\ ret.value.data = im
            /\ Len(ret.value.mask) = NRows(im)
            /\ \A i \in 1..NRows(im) :
                  /\ Len(ret.value.mask[i]) = NCols(im)
                  /\ \A j \in 1..NCols(im) :
                        ret.value.mask[i][j] <=> (im[i][j] * t[2] > t[1])

\* a cell equal to the threshold left unmasked beside a masked cell above it
C5_Witness ==
    /\ op = "img_mask"
    /\ pc = "done"
    /\ args.threshold.tag = "num"
    /\ \E i \in 1..NRows(args.image_data) : \E j, k \in 1..NCols(args.image_data) :
          /\ IntR(args.image_data[i][j]) = args.threshold.v
          /\ ~ret.value.mask[i][j]
          /\ args.image_data[i][k] * args.threshold.v[2] > args.threshold.v[1]
          /\ ret.value.mask[i][k]

RECURSIVE SumOfSquares(_)
SumOfSquares(s) == IF Len(s) = 0 THEN 0 ELSE s[1] * s[1] + SumOfSquares(Tail(s))

\* C15: without a threshold, img_mask masks exactly the pixels strictly
\* above mean + 3*std, the mean and the population standard deviation being
\* those of all pixels of the input, taken once: with n pixels of sum s and
\* sum of squares q, pixel x is masked exactly when n*x - s > 0 and
\* (n*x - s)^2 > 9*(n*q - s^2)
C15_AutoThresholdIsMeanPlus3Std ==
    (op = "img_mask" /\ pc = "done" /\ args.threshold = TNone) =>
        LET im == args.image_data
            all == Flatten(im)
            n == Len(all)
            sum == SumSeq(all)
            q == SumOfSquares(all)
        IN  /\ ret.kind = "return"
            /\ ret.value.data = im
            /\ \A i \in 1..NRows(im) : \A j \in 1..NCols(im) :
                  ret.value.mask[i][j] <=>
                     /\ n * im[i][j] - sum > 0
                     /\ (n * im[i][j] - sum) * (n * im[i][j] - sum) > 9 * (n * q - sum * sum)

\* a pixel masked by the threshold of all pixels beside a pixel that is
\* above mean + 3*std of the pixels left unmasked, and is not masked
C15_Witness ==
    /\ op = "img_mask"
    /\ pc = "done"
    /\ args.threshold = TNone
    /\ args.image_data \in OutlierImages
    /\ ret.value.mask[1][1]
    /\ args.image_data[1][2] = 1
    /\ ~ret.value.mask[1][2]

---------------------------------------------------------------------------
(* Properties of count_1d. *)

\* the positions of line i along count_axis: <<row, column>> pairs
LinePositions(data, count_axis, i) ==
    IF count_axis = 1
    THEN {<<i, j>> : j \in 1..Len(data[1])}
    ELSE {<<k, i>> : k \in 1..Len(data)}

RECURSIVE SumAt(_, _)
SumAt(data, positions) ==
    IF positions = {} THEN 0
    ELSE LET p == CHOOSE q \in positions : TRUE
         IN  data[p[1]][p[2]] + SumAt(data, positions \ {p})

FullyMasked(masked_data, count_axis, i) ==
    \A p \in LinePositions(masked_data.data, count_axis, i) : masked_data.mask[p[1]][p[2]]

\* C17: where every entry of a line along count_axis is masked, the profile
\* of count_1d holds the masked value, not a number; the other positions
\* hold the mean of their own unmasked entries, and the profile has one
\* entry per line all the same
C17_FullyMaskedLineIsMasked ==
    (op = "count_1d" /\ pc = "done") =>
        LET md == args.image_data
            n == IF args.count_axis = 1 THEN NRows(md.data) ELSE NCols(md.data)
        IN  /\ Len(ret.value.counts) = n
            /\ Len(ret.value.coordinates) = n
            /\ \A i \in 1..n :
                  IF FullyMasked(md, args.count_axis, i)
                  THEN ret.value.counts[i] = CMasked
                  ELSE LET unmasked == {p \in LinePositions(md.data, args.count_axis, i) :
                                           ~md.mask[p[1]][p[2]]}
                       IN  /\ ret.value.counts[i].tag = "num"
                           /\ RMul(ret.value.counts[i].v, IntR(Cardinality(unmasked)))
                                  = IntR(SumAt(md.data, unmasked))

\* a fully masked line holding a nonzero pixel, beside a line that has an
\* unmasked entry
C17_Witness ==
    /\ op = "count_1d"
    /\ pc = "done"
    /\ \E i, k \in 1..Len(ret.value.counts) :
          /\ FullyMasked(args.image_data, args.count_axis, i)
          /\ \E p \in LinePositions(args.image_data.data, args.count_axis, i) :
                args.image_data.data[p[1]][p[2]] # 0
          /\ ret.value.counts[i] = CMasked
          /\ ~FullyMasked(args.image_data, args.count_axis, k)
          /\ ret.value.counts[k].tag = "num"

\* the positions photometry reads as its streak region for the extent
\* lo..hi (lines 195, 198-202): whole rows of image_data
StreakPositions(image_data, lo, hi) ==
    LET ix == StreakIndices(lo, hi)
    IN  {<<NormIndex(ix[k], NRows(image_data)) + 1, j>> :
            k \in 1..Len(ix), j \in 1..NCols(image_data)}

\* C14: for count_axis 0 and 1 alike, index i of the profile and coordinates
\* of count_1d stands for the line of the image that photometry takes at
\* index i: the extent i..i is defined in photometry and selects the pixels
\* that profile value i was averaged over
C14_ProfileIndexIsPhotometryLine ==
    (op = "count_1d" /\ pc = "done") =>
        \A k \in 1..Len(ret.value.coordinates) :
            LET i == ret.value.coordinates[k]
                data == args.image_data.data
            IN  /\ IndexOK(i, NRows(data))
                /\ StreakPositions(data, i, i) = LinePositions(data, args.count_axis, k)


---------------------------------------------------------------------------
(* Properties of radec_to_pixel. *)

\* C19: with origin 0 radec_to_pixel returns what the mapping gives for the
\* sky coordinate, unchanged; with origin 1 it returns (x + 1, y + 1) for the
\* (x, y) the same call returns with origin 0 (and fails where that fails)
C19_OriginOneAddsOne ==
    (op = "radec_to_pixel" /\ pc = "done") =>
        LET zero == radec_to_pixel(args.ra_deg, args.dec_deg, args.wcs_obj, 0)
            pix == world_to_pixel(args.wcs_obj, args.ra_deg, args.dec_deg)
        IN  /\ (args.origin = 0 /\ ret.kind = "return") => ret = pix
            /\ (args.origin = 1 /\ zero.kind = "return") =>
                  /\ ret.kind = "return"
                  /\ ret.value[1] = RAdd(zero.value[1], IntR(1))
                  /\ ret.value[2] = RAdd(zero.value[2], IntR(1))
            /\ (args.origin = 1 /\ zero.kind = "raise") => ret = zero

\* a call with origin 1 that returned fractional pixel coordinates
C19_Witness ==
    /\ op = "radec_to_pixel"
    /\ pc = "done"
    /\ args.origin = 1
    /\ ret.kind = "return"
    /\ ret.value[1][2] # 1
    /\ ret.value # world_to_pixel(args.wcs_obj, args.ra_deg, args.dec_deg).value


---------------------------------------------------------------------------
(* Properties of all five functions. *)

---------------------------------------------------------------------------
(* astrometry.py: platesolve (Plate Solver front end). *)

\* the option lists have 1..MaxOptions entries
MaxOptions == 2
\* the solver prints at most MaxLines lines
MaxLines == 2

\* A Python string is a sequence of pieces: " " is a space, every other
\* piece is text without spaces.
\* s.replace(' ', r'\ ')
Replace(s) == [k \in 1..Len(s) |-> IF s[k] = " " THEN "\\ " ELSE s[k]]

\* the values of solve_option
VBool(b) == [tag |-> "bool", b |-> b, n |-> 0, s |-> <<>>]
VNone == [tag |-> "None", b |-> FALSE, n |-> 0, s |-> <<>>]
VInt(n) == [tag |-> "int", b |-> FALSE, n |-> n, s |-> <<>>]
VStr(s) == [tag |-> "str", b |-> FALSE, n |-> 0, s |-> s]

\* value == True and value == False: a bool is a number in Python, so
\* 1 == True and 0 == False
PyEqTrue(v) == (v.tag = "bool" /\ v.b) \/ (v.tag = "int" /\ v.n = 1)
PyEqFalse(v) == (v.tag = "bool" /\ ~v.b) \/ (v.tag = "int" /\ v.n = 0)

\* str(value) for the values that reach line 63
PyStr(v) == IF v.tag = "int" THEN <<ToString(v.n)>> ELSE v.s

\* lines 57-63: the options appended to the command, in the dictionary's order
RECURSIVE AppendOptions(_, _)
AppendOptions(cmd, solve_option) ==
    IF solve_option = <<>> THEN cmd
    ELSE LET f == solve_option[1][1]
             v == solve_option[1][2]
         IN  AppendOptions(
                 IF PyEqTrue(v) THEN cmd \o <<" ", f>>
                 ELSE IF PyEqFalse(v) \/ v.tag = "None" THEN cmd
                 ELSE cmd \o <<" ", f, " ">> \o Replace(PyStr(v)),
                 Tail(solve_option))

\* lines 56-63
BuildCommand(filePATH, solve_option) ==
    AppendOptions(<<"solve-field", " ">> \o Replace(filePATH), solve_option)

\* f in solve_option, and solve_option[f]
HasKey(solve_option, f) == \E k \in 1..Len(solve_option) : solve_option[k][1] = f
Lookup(solve_option, f) ==
    solve_option[CHOOSE k \in 1..Len(solve_option) : solve_option[k][1] = f][2]

\* A line of the solver's output: its characters 0..14, 15..21 and the rest.
OutputLine(a, b, c) == [head15 |-> a, mid7 |-> b, rest |-> c]
\* b'' at end of file
EOFLine == OutputLine("", "", "")
SolvedLine == OutputLine("Field 1: solved", " with i", "ndex index-4107.fits.")
DidNotSolveLine == OutputLine("Field 1 did not", " solve.", "")
DidNotSolveIndexLine == OutputLine("Field 1 did not", " solve ", "(index index-4107.fits).")
ReadingLine == OutputLine("Reading input f", "ile 1 o", "f 1")
SolverLines == {SolvedLine, DidNotSolveLine, DidNotSolveIndexLine, ReadingLine}

\* line.decode()[0:15] and line.decode()[0:22]
Slice15(line) == line.head15
Slice22(line) == line.head15 \o line.mid7

\* line 89: not line and proc.poll() is not None
AtEnd_eofOnly(line, exited) == line = EOFLine
AtEnd(line, exited) == line = EOFLine /\ exited

\* Inputs of platesolve.
FilePaths == {<<"a.fits">>, <<"my", " ", "a.fits">>}
ResultPaths == {<<"a.new">>, <<"my", " ", "a.new">>}
OptionValues ==
    {VBool(TRUE), VBool(FALSE), VNone, VInt(0), VInt(1), VInt(2), VStr(<<"a", " ", "b">>)}
OptionEntries ==
    {<<"-N", VStr(r)>> : r \in ResultPaths}
        \cup {<<f, v>> : f \in {"--overwrite", "-z"}, v \in OptionValues}

\* a dictionary in its order: entries with distinct keys
IsSolveOption(d) ==
    /\ \A k \in 1..Len(d) : d[k] \in OptionEntries
    /\ \A j, k \in 1..Len(d) : d[j][1] = d[k][1] => j = k

SolveOptions ==
    UNION {{d \in [1..n -> OptionEntries] : IsSolveOption(d)} : n \in 1..MaxOptions}

PlatesolveArgs ==
    {[filePATH |-> fp, solve_option |-> d, async_process |-> a, jupyter_env |-> j] :
        fp \in FilePaths, d \in SolveOptions, a \in BOOLEAN, j \in BOOLEAN}

\* the file at result_path (absent, there before the call, or written by the
\* solver of this call) and the solver's process
Envs ==
    {[file |-> f, started |-> FALSE, pipe |-> <<>>, printed |-> 0,
      closed |-> FALSE, exited |-> FALSE] : f \in {"absent", "old"}}

\* the asynchronous calls are made with one option: the solver is free to do
\* anything whatever the command
InitPlatesolve ==
    /\ op = "platesolve"
    /\ args \in PlatesolveArgs
    /\ args.async_process => Len(args.solve_option) = 1
    /\ pc = "call"
    /\ locals = NoLocals
    /\ solver = NoSolver
    /\ ret = NoRet
    /\ env \in Envs

\* lines 56-66: the command, result_path, and the removal of an old output
PlatesolvePrepare ==
    /\ op = "platesolve"
    /\ pc = "call"
    /\ IF HasKey(args.solve_option, "-N")
       THEN /\ locals' = [cmd |-> BuildCommand(args.filePATH, args.solve_option),
                          result_path |-> Lookup(args.solve_option, "-N").s,
                          line |-> EOFLine,
                          astrometry_result |-> <<>>]
            /\ env' = [env EXCEPT !.file = "absent"]
            /\ pc' = IF args.async_process THEN "popen" ELSE "run"
            /\ ret' = ret
       ELSE /\ locals' = [cmd |-> BuildCommand(args.filePATH, args.solve_option)]
            /\ ret' = Raise("KeyError")
            /\ pc' = "done"
            /\ env' = env
    /\ UNCHANGED <<op, args, solver>>

\* lines 99-105: the solver runs to its end, writing the output or not
PlatesolveRun ==
    /\ op = "platesolve"
    /\ pc = "run"
    /\ \E wrote \in BOOLEAN :
          /\ env' = [env EXCEPT !.file = IF wrote THEN "new" ELSE @,
                                !.started = TRUE, !.closed = TRUE, !.exited = TRUE]
          /\ LET astrometry_result == env'.file # "absent"
             IN  /\ locals' = [locals EXCEPT !.astrometry_result = <<astrometry_result>>]
                 /\ ret' = Return(<<locals.result_path, astrometry_result>>)
    /\ pc' = "done"
    /\ UNCHANGED <<op, args, solver>>

\* lines 69-78
PlatesolvePopen ==
    /\ op = "platesolve"
    /\ pc = "popen"
    /\ env' = [env EXCEPT !.started = TRUE]
    /\ pc' = "read"
    /\ UNCHANGED <<op, args, locals, solver, ret>>

\* the solver at work while platesolve reads: it prints a line, writes the
\* output file, closes its output, or exits
SolverRunning == op = "platesolve" /\ pc \in {"read", "branch"} /\ env.started /\ ~env.exited

SolverPrint ==
    /\ SolverRunning
    /\ ~env.closed
    /\ env.printed < MaxLines
    /\ \E l \in SolverLines :
          env' = [env EXCEPT !.pipe = Append(@, l), !.printed = @ + 1]
    /\ UNCHANGED <<op, args, pc, locals, solver, ret>>

SolverWrite ==
    /\ SolverRunning
    /\ env.file # "new"
    /\ env' = [env EXCEPT !.file = "new"]
    /\ UNCHANGED <<op, args, pc, locals, solver, ret>>

SolverClose ==
    /\ SolverRunning
    /\ ~env.closed
    /\ env' = [env EXCEPT !.closed = TRUE]
    /\ UNCHANGED <<op, args, pc, locals, solver, ret>>

SolverExit ==
    /\ SolverRunning
    /\ env' = [env EXCEPT !.closed = TRUE, !.exited = TRUE]
    /\ UNCHANGED <<op, args, pc, locals, solver, ret>>

\* lines 81-83: readline waits for a line or for the end of the output
PlatesolveReadLine ==
    /\ op = "platesolve"
    /\ pc = "read"
    /\ \/ /\ env.pipe # <<>>
          /\ locals' = [locals EXCEPT !.line = Head(env.pipe)]
          /\ env' = [env EXCEPT !.pipe = Tail(@)]
       \/ /\ env.pipe = <<>>
          /\ env.closed
          /\ locals' = [locals EXCEPT !.line = EOFLine]
          /\ env' = env
    /\ pc' = "branch"
    /\ UNCHANGED <<op, args, solver, ret>>

\* lines 85-97 and 105
PlatesolveBranch ==
    /\ op = "platesolve"
    /\ pc = "branch"
    /\ LET line == locals.line
           seen == IF Slice15(line) = "Field 1: solved" THEN <<TRUE>>
                   ELSE locals.astrometry_result
       IN  IF AtEnd(line, env.exited)
           THEN /\ locals' = [locals EXCEPT !.astrometry_result = <<TRUE>>]
                /\ ret' = Return(<<locals.result_path, TRUE>>)
                /\ pc' = "done"
           ELSE IF Slice22(line) = "Field 1 did not solve."
           THEN /\ locals' = [locals EXCEPT !.astrometry_result = <<FALSE>>]
                /\ ret' = Return(<<locals.result_path, FALSE>>)
                /\ pc' = "done"
           ELSE /\ locals' = [locals EXCEPT !.astrometry_result = seen]
                /\ ret' = ret
                /\ pc' = "read"
    /\ UNCHANGED <<op, args, solver, env>>

NextPlatesolve ==
    \/ PlatesolvePrepare
    \/ PlatesolveRun
    \/ PlatesolvePopen
    \/ SolverPrint
    \/ SolverWrite
    \/ SolverClose
    \/ SolverExit
    \/ PlatesolveReadLine
    \/ PlatesolveBranch

\* platesolve is one thread: when it can take its next step it does
SpecPlatesolve ==
    /\ InitPlatesolve
    /\ [][NextPlatesolve]_vars
    /\ WF_vars(PlatesolvePrepare \/ PlatesolveRun \/ PlatesolvePopen
                  \/ PlatesolveReadLine \/ PlatesolveBranch)

---------------------------------------------------------------------------
(* Properties of platesolve. *)

PlatesolveReturned == op = "platesolve" /\ pc = "done" /\ ret.kind = "return"

\* C21: whenever platesolve returns astrometry_result = True, synchronous or
\* asynchronous, the file at result_path exists and was written by the
\* solver of this call (an older file was removed before the solver started)
C21_TrueMeansOutputWritten ==
    (PlatesolveReturned /\ ret.value[2] = TRUE) => env.file = "new"

AsyncInLoop == op = "platesolve" /\ args.async_process /\ pc \in {"read", "branch"}
AsyncReturned == PlatesolveReturned /\ args.async_process

\* the last line the loop has read is a "Field 1 did not solve." line
ReadDidNotSolve == Slice22(locals.line) = "Field 1 did not solve."
\* the last read met the end of the output and the process has exited
ReadEndAfterExit == locals.line = EOFLine /\ env.exited

C25_ReturnsOnlyThen ==
    AsyncReturned =>
        /\ ret.value[2] = FALSE <=> ReadDidNotSolve
        /\ ret.value[2] = TRUE <=> ReadEndAfterExit

\* C25: in asynchronous mode platesolve returns only after it has read a
\* "Field 1 did not solve." line, and then False, or after it has read the end
\* of the output of a process that has exited, and then True; and once either
\* has happened it does return: a "did not solve" line just read leads to the
\* return of False, an output at its end with the process exited leads to the
\* return of True.
C25_AsyncLoopEnds ==
    /\ []C25_ReturnsOnlyThen
    /\ (AsyncInLoop /\ pc = "branch" /\ ReadDidNotSolve)
           ~> (AsyncReturned /\ ret.value[2] = FALSE)
    /\ (AsyncInLoop /\ env.exited /\ env.pipe = <<>> /\ (pc = "branch" => locals.line = EOFLine))
           ~> (AsyncReturned /\ ret.value[2] = TRUE)

\* False returned on a "did not solve" line while the solver is still running
\* with output unread
C25_Witness ==
    /\ AsyncReturned
    /\ ret.value[2] = FALSE
    /\ ~env.exited
    /\ env.pipe # <<>>

\* the command line by the rule of C26: True is the value True, False the
\* value False, every other value but None is written after its flag
RECURSIVE CommandByRule(_, _)
CommandByRule(cmd, solve_option) ==
    IF solve_option = <<>> THEN cmd
    ELSE LET f == solve_option[1][1]
             v == solve_option[1][2]
         IN  CommandByRule(
                 IF v = VBool(TRUE) THEN cmd \o <<" ", f>>
                 ELSE IF v = VBool(FALSE) \/ v = VNone THEN cmd
                 ELSE cmd \o <<" ", f, " ">> \o Replace(PyStr(v)),
                 Tail(solve_option))

\* C26: after the file path the command line holds, for every entry of
\* solve_option in the dictionary's order, the bare flag when the value is
\* True, nothing when it is False or None, and the flag followed by the value
\* for every other value, the numbers 0 and 1 included
C26_CommandFollowsOptions ==
    (op = "platesolve" /\ pc # "call") =>
        locals.cmd = CommandByRule(<<"solve-field", " ">> \o Replace(args.filePATH),
                                   args.solve_option)

---------------------------------------------------------------------------
(* gettle.py: parse.filter_nearest_tles.  Times are counted in half
   seconds: TLE epochs carry fractions of a second, and so may obs_time. *)

\* a satellite has 0..MaxTles TLEs
MaxTles == 3
\* epochs and obs_time are 0..MaxEpoch half seconds
MaxEpoch == 4

\* line 353: strptime of the first 19 characters "%Y-%m-%dT%H:%M:%S", which
\* hold the whole seconds; what follows them is dropped
Strptime19(obs_time) == 2 * (obs_time \div 2)

\* line 357: sorted(tle_list, key=epoch), a stable sort
RECURSIVE InsertByEpoch(_, _)
InsertByEpoch(t, sorted) ==
    IF sorted = <<>> THEN <<t>>
    ELSE IF t.epoch < sorted[1].epoch THEN <<t>> \o sorted
    ELSE <<sorted[1]>> \o InsertByEpoch(t, Tail(sorted))

RECURSIVE SortedByEpoch(_)
SortedByEpoch(tle_list) ==
    IF tle_list = <<>> THEN <<>>
    ELSE InsertByEpoch(tle_list[Len(tle_list)],
                       SortedByEpoch(SubSeq(tle_list, 1, Len(tle_list) - 1)))

\* lines 360 and 364
IsPast_strict(t, obs_time) == t.epoch < obs_time
IsPast(t, obs_time) == t.epoch <= obs_time
IsFuture(t, obs_time) == t.epoch >= obs_time

\* lines 357-370 for one satellite: what is appended to the result
NearestOfSatellite(tle_list, obs_time) ==
    LET tle_list_sorted == SortedByEpoch(tle_list)
        past(t) == IsPast(t, obs_time)
        future(t) == IsFuture(t, obs_time)
        past_candidates == SelectSeq(tle_list_sorted, past)
        future_candidates == SelectSeq(tle_list_sorted, future)
        past_part == IF past_candidates # <<>>
                     THEN <<past_candidates[Len(past_candidates)]>> ELSE <<>>
        \* "is not": the records are compared as objects
        future_part == IF future_candidates # <<>>
                          /\ (past_part = <<>> \/ future_candidates[1].id # past_part[1].id)
                       THEN <<future_candidates[1]>> ELSE <<>>
    IN  past_part \o future_part

\* lines 352-372: tle_dict is the dictionary in its order, as <<satnum, list>>
RECURSIVE FilterLoop(_, _)
FilterLoop(tle_dict, obs_time) ==
    IF tle_dict = <<>> THEN <<>>
    ELSE NearestOfSatellite(tle_dict[1][2], obs_time) \o FilterLoop(Tail(tle_dict), obs_time)

filter_nearest_tles(tle_dict, obs_time) == FilterLoop(tle_dict, Strptime19(obs_time))

\* Inputs: the TLE records of a satellite are objects <<satnum, position>>
\* with an epoch; equal epochs occur.
TleLists(satnum, maxlen) ==
    UNION {{[k \in 1..n |-> [id |-> <<satnum, k>>, epoch |-> e[k]]] :
               e \in [1..n -> 0..MaxEpoch]} : n \in 0..maxlen}

\* one satellite, or two of which the second has at most one TLE
IsFilterArgs(a) ==
    \E l1 \in TleLists("25544", MaxTles) : \E t \in 0..MaxEpoch :
       \/ a = [tle_dict |-> <<<<"25544", l1>>>>, obs_time |-> t]
       \/ \E l2 \in TleLists("40000", 1) :
             a = [tle_dict |-> <<<<"25544", l1>>, <<"40000", l2>>>>, obs_time |-> t]

FilterNearestTles ==
    /\ op = "filter_nearest_tles"
    /\ pc = "call"
    /\ ret' = Return(filter_nearest_tles(args.tle_dict, args.obs_time))
    /\ pc' = "done"
    /\ UNCHANGED <<op, args, locals, solver, env>>

---------------------------------------------------------------------------
(* gettle.py: parse.parse_tles_file. *)

\* a TLE file has 1..MaxFileLines lines
MaxFileLines == 5

\* A line of the file: its number in the file, its first two characters,
\* whether it is only white space, and, for a line 1, the catalog number of
\* columns 3-7 and the epoch of columns 19-32 (yy = -1: not a number).
FileLine(start, blank, satnum, yy, doy) ==
    [no |-> 0, start |-> start, blank |-> blank, satnum |-> satnum, yy |-> yy, doy |-> doy]
BlankLine == FileLine("  ", TRUE, "", -1, 0)
NameLine == FileLine("IS", FALSE, "", -1, 0)
Line1(satnum, yy, doy) == FileLine("1 ", FALSE, satnum, yy, doy)
Line2(satnum) == FileLine("2 ", FALSE, satnum, -1, 0)

LineKinds ==
    {BlankLine, NameLine, Line2("25544"),
     Line1("25544", 24, 1), Line1("40000", 57, 2),
     Line1("25544", -1, 0)}

IsParseArgs(a) ==
    \E n \in 1..MaxFileLines : \E kinds \in [1..n -> LineKinds] :
        a = [file |-> [k \in 1..n |-> [kinds[k] EXCEPT !.no = k]]]

\* line 281: the lines that are not blank
NonBlank(ln) == ~ln.blank
NonBlankLines(file) == SelectSeq(file, NonBlank)

\* line.startswith("1 ") and line.startswith("2 ")
StartsWith(line, prefix) == line.start = prefix

\* lines 309-313: the epoch of line 1, or no value when the field is not a
\* number (int() raises ValueError)
EpochParses(line1) == line1.yy >= 0
ParseEpoch(line1) ==
    [year |-> IF line1.yy < 57 THEN 2000 + line1.yy ELSE 1900 + line1.yy,
     doy |-> line1.doy]

\* line 323: tle_dict.setdefault(satnum, []).append(tle_info)
DictAppend(tle_dict, satnum, tle_info) ==
    IF \E k \in 1..Len(tle_dict) : tle_dict[k][1] = satnum
    THEN [k \in 1..Len(tle_dict) |->
             IF tle_dict[k][1] = satnum
             THEN <<satnum, Append(tle_dict[k][2], tle_info)>> ELSE tle_dict[k]]
    ELSE Append(tle_dict, <<satnum, <<tle_info>>>>)

\* lines 292 and 301: the index after a record without and with a name line
AfterPair_skipping(i) == i + 3
AfterPair(i) == i + 2
AfterNamedPair(i) == i + 3

\* lines 280-285
ParseRead ==
    /\ op = "parse_tles_file"
    /\ pc = "call"
    /\ locals' = [lines |-> NonBlankLines(args.file), i |-> 0, tle_dict |-> <<>>]
    /\ pc' = "scan"
    /\ UNCHANGED <<op, args, solver, ret, env>>

\* lines 286-324: one iteration of the scan; lines[k] of the code is
\* lines[k + 1] here
ParseStep ==
    /\ op = "parse_tles_file"
    /\ pc = "scan"
    /\ locals.i < Len(locals.lines)
    /\ LET lines == locals.lines
           i == locals.i
           n == Len(lines)
           record(name, line1, line2, i_next) ==
               IF EpochParses(line1)
               THEN /\ locals' = [locals EXCEPT
                                     !.tle_dict = DictAppend(@, line1.satnum,
                                                     [name |-> name, line1 |-> line1,
                                                      line2 |-> line2,
                                                      epoch |-> ParseEpoch(line1)]),
                                     !.i = i_next]
                    /\ pc' = "scan"
                    /\ ret' = ret
               ELSE /\ locals' = locals
                    /\ pc' = "done"
                    /\ ret' = Raise("ValueError")
       IN  IF StartsWith(lines[i + 1], "1 ") /\ i + 1 < n /\ StartsWith(lines[i + 2], "2 ")
           THEN record(<<>>, lines[i + 1], lines[i + 2], AfterPair(i))
           ELSE IF i + 2 < n /\ StartsWith(lines[i + 2], "1 ") /\ StartsWith(lines[i + 3], "2 ")
           THEN record(<<lines[i + 1]>>, lines[i + 2], lines[i + 3], AfterNamedPair(i))
           ELSE /\ locals' = [locals EXCEPT !.i = i + 1]
                /\ pc' = "scan"
                /\ ret' = ret
    /\ UNCHANGED <<op, args, solver, env>>

\* lines 286 and 326
ParseReturn ==
    /\ op = "parse_tles_file"
    /\ pc = "scan"
    /\ locals.i >= Len(locals.lines)
    /\ ret' = Return(locals.tle_dict)
    /\ pc' = "done"
    /\ UNCHANGED <<op, args, locals, solver, env>>

InitParseTles ==
    /\ op = "parse_tles_file"
    /\ IsParseArgs(args)
    /\ pc = "call"
    /\ locals = NoLocals
    /\ solver = NoSolver
    /\ ret = NoRet
    /\ env = NoEnv

NextParseTles ==
    \/ ParseRead
    \/ ParseStep
    \/ ParseReturn

\* a call that can take its next step does
SpecParseTles == InitParseTles /\ [][NextParseTles]_vars /\ WF_vars(NextParseTles)

InitFilterTles ==
    /\ op = "filter_nearest_tles"
    /\ IsFilterArgs(args)
    /\ pc = "call"
    /\ locals = NoLocals
    /\ solver = NoSolver
    /\ ret = NoRet
    /\ env = NoEnv

NextFilterTles == FilterNearestTles

SpecFilterTles == InitFilterTles /\ [][NextFilterTles]_vars

---------------------------------------------------------------------------
(* Properties of gettle.py. *)

FilterReturned == op = "filter_nearest_tles" /\ pc = "done" /\ ret.kind = "return"

\* the entries of the result that are records of one satellite
OfSatellite(result, satnum) == SelectSeq(result, LAMBDA t : t.id[1] = satnum)

Bit(b) == IF b THEN 1 ELSE 0

\* C22: for every satellite with at least one TLE the result holds one or two
\* of its records: first the one with the latest epoch at or before the
\* observation time when there is one, last the one with the earliest epoch at
\* or after it when there is one, a single entry when the two are the same
\* record; a record whose epoch is nearest to the observation time is among
\* them.  The observation time is the one the function parses from the first 19
\* characters of obs_time.
C22_NearestTlesKept ==
    FilterReturned =>
        \A s \in 1..Len(args.tle_dict) :
            LET satnum == args.tle_dict[s][1]
                tle_list == args.tle_dict[s][2]
                T == Strptime19(args.obs_time)
                E == OfSatellite(ret.value, satnum)
                past == {k \in 1..Len(tle_list) : tle_list[k].epoch <= T}
                future == {k \in 1..Len(tle_list) : tle_list[k].epoch >= T}
                at == {k \in 1..Len(tle_list) : tle_list[k].epoch = T}
            IN  Len(tle_list) >= 1 =>
                    /\ Len(E) \in {1, 2}
                    /\ Len(E) = Bit(past # {}) + Bit(future # {}) - Bit(Cardinality(at) = 1)
                    /\ \A j \in 1..Len(E) : \E k \in 1..Len(tle_list) : E[j] = tle_list[k]
                    /\ Len(E) = 2 => E[1] # E[2]
                    /\ past # {} => \A k \in past : tle_list[k].epoch <= E[1].epoch /\ E[1].epoch <= T
                    /\ future # {} =>
                           \A k \in future : E[Len(E)].epoch <= tle_list[k].epoch /\ T <= E[Len(E)].epoch
                    /\ \E j \in 1..Len(E) : \A k \in 1..Len(tle_list) :
                           Abs(E[j].epoch - T) <= Abs(tle_list[k].epoch - T)

\* a satellite with records on both sides of the observation time and one
\* with a single record at the observation time
C22_Witness ==
    /\ FilterReturned
    /\ Len(args.tle_dict) = 2
    /\ Len(args.tle_dict[1][2]) = MaxTles
    /\ Len(OfSatellite(ret.value, args.tle_dict[1][1])) = 2
    /\ OfSatellite(ret.value, args.tle_dict[1][1])[1].epoch < Strptime19(args.obs_time)
    /\ OfSatellite(ret.value, args.tle_dict[1][1])[2].epoch > Strptime19(args.obs_time)
    /\ Len(OfSatellite(ret.value, args.tle_dict[2][1])) = 1
    /\ OfSatellite(ret.value, args.tle_dict[2][1])[1].epoch = Strptime19(args.obs_time)

ParseDone == op = "parse_tles_file" /\ pc = "done"

\* the positions k of the non-blank lines where a "1 " line is followed by a
\* "2 " line
PairsOf(lines) ==
    {k \in 1..(Len(lines) - 1) : StartsWith(lines[k], "1 ") /\ StartsWith(lines[k + 1], "2 ")}

\* every record of a dictionary, as <<satellite, position in its list>>
RecordsOf(tle_dict) ==
    {<<s, j>> : s \in 1..Len(tle_dict), j \in 1..MaxFileLines} \cap
    {sj \in (1..Len(tle_dict)) \X (1..MaxFileLines) : sj[2] <= Len(tle_dict[sj[1]][2])}

RecordAt(tle_dict, sj) == tle_dict[sj[1]][2][sj[2]]

\* the dictionary holds one record for each pair of the set, filed under the
\* catalog number of its line 1, no line in two records, each satellite's
\* records in file order
HoldsExactly(tle_dict, lines, pairs) ==
    LET recs == RecordsOf(tle_dict)
    IN  /\ Cardinality(recs) = Cardinality(pairs)
        /\ {<<RecordAt(tle_dict, r).line1.no, RecordAt(tle_dict, r).line2.no>> : r \in recs}
             = {<<lines[k].no, lines[k + 1].no>> : k \in pairs}
        /\ Cardinality(UNION {{RecordAt(tle_dict, r).line1.no, RecordAt(tle_dict, r).line2.no} :
                                  r \in recs}) = 2 * Cardinality(recs)
        /\ \A r \in recs : tle_dict[r[1]][1] = RecordAt(tle_dict, r).line1.satnum
        /\ \A r1 \in recs : \A r2 \in recs :
               r1[1] = r2[1] /\ r1[2] < r2[2] =>
                   RecordAt(tle_dict, r1).line1.no < RecordAt(tle_dict, r2).line1.no
        /\ \A s1 \in 1..Len(tle_dict) : \A s2 \in 1..Len(tle_dict) :
               s1 # s2 => tle_dict[s1][1] # tle_dict[s2][1]

\* the pairs whose line 1 carries an epoch that is not a number
BadPairs(lines) == {k \in PairsOf(lines) : ~EpochParses(lines[k])}

C24_AtEnd ==
    ParseDone =>
        LET lines == NonBlankLines(args.file)
            pairs == PairsOf(lines)
            bad == BadPairs(lines)
        IN  IF bad = {}
            THEN ret.kind = "return" /\ HoldsExactly(ret.value, lines, pairs)
            ELSE /\ ret = Raise("ValueError")
                 /\ HoldsExactly(locals.tle_dict, lines,
                                  {k \in pairs : \A b \in bad : k < b})

C24_IndexAdvances ==
    (op = "parse_tles_file" /\ pc = "scan" /\ pc' = "scan") =>
        /\ locals'.i - locals.i \in {1, 2, 3}
        /\ locals'.lines = locals.lines

---------------------------------------------------------------------------
(* satorbit.py: itrf2azel.  Angles are counted in eighths of a turn, so that
   pi is 4 and 2*pi is 8; the positions are on a grid whose directions are
   whole eighths, for which the floating-point angles pi, pi + pi and 2.0*pi
   are exact. *)

Pi == 4

Coords == {-1, 0, 1}
PositionsItrf == Coords \X Coords \X Coords
SitesItrf == {<<0, 0, 0>>, <<0, 0, 1>>}

\* the site is at the pole on the prime meridian: both rotations are by the
\* angle 0
ItrfToAzelArgs ==
    [pos_itrf : PositionsItrf, site_itrf : SitesItrf, gd_lon : {0}, gd_lat : {Pi \div 2}]

\* spice.vsub
vsub(v1, v2) == <<v1[1] - v2[1], v1[2] - v2[2], v1[3] - v2[3]>>

\* spice.rotvec by a whole number of quarter turns about axis 2 or 3: the
\* vector expressed in the frame rotated by the angle
RECURSIVE rotvec(_, _, _)
rotvec(v, angle, axis) ==
    IF angle % (2 * Pi) = 0 THEN v
    ELSE rotvec(IF axis = 3 THEN <<v[2], -v[1], v[3]>> ELSE <<-v[3], v[2], v[1]>>,
                angle - Pi \div 2, axis)

\* spice.recazl(rectan, azccw = False, elplsz = True): the azimuth, clockwise
\* from the first axis, in [0, 2*pi); 0 on the third axis
recazl_az(rectan) ==
    LET x == rectan[1]
        y == rectan[2]
    IN  IF x = 0 /\ y = 0 THEN 0
        ELSE IF y = 0 THEN (IF x > 0 THEN 0 ELSE Pi)
        ELSE IF x = 0 THEN (IF y < 0 THEN Pi \div 2 ELSE 3 * (Pi \div 2))
        ELSE IF y < 0 THEN (IF x > 0 THEN Pi \div 4 ELSE 3 * (Pi \div 4))
        ELSE (IF x < 0 THEN 5 * (Pi \div 4) ELSE 7 * (Pi \div 4))

\* the range and the elevation, kept as the squared lengths they are the
\* square root and the arc tangent of
recazl(rectan) ==
    [range2 |-> rectan[1] * rectan[1] + rectan[2] * rectan[2] + rectan[3] * rectan[3],
     az |-> recazl_az(rectan),
     el |-> [z |-> rectan[3], horizontal2 |-> rectan[1] * rectan[1] + rectan[2] * rectan[2]]]

\* lines 340-347
ItrfToAzelConvert ==
    /\ op = "itrf2azel"
    /\ pc = "call"
    /\ LET rel_itrf == vsub(args.pos_itrf, args.site_itrf)
           sez == rotvec(rotvec(rel_itrf, args.gd_lon, 3), Pi \div 2 - args.gd_lat, 2)
       IN  locals' = recazl(sez)
    /\ pc' = "shift"
    /\ UNCHANGED <<op, args, solver, ret, env>>

\* lines 350-353
ItrfToAzelShift ==
    /\ op = "itrf2azel"
    /\ pc = "shift"
    /\ LET az == locals.az + Pi
       IN  ret' = Return(<<locals.range2,
                           IF az > 2 * Pi THEN az - 2 * Pi ELSE az,
                           locals.el>>)
    /\ pc' = "done"
    /\ UNCHANGED <<op, args, locals, solver, env>>

InitSatorbit ==
    /\ op = "itrf2azel"
    /\ args \in ItrfToAzelArgs
    /\ pc = "call"
    /\ locals = NoLocals
    /\ solver = NoSolver
    /\ ret = NoRet
    /\ env = NoEnv

NextSatorbit ==
    \/ ItrfToAzelConvert
    \/ ItrfToAzelShift

SpecSatorbit == InitSatorbit /\ [][NextSatorbit]_vars

\* C23: the azimuth itrf2azel returns is in [0, 2*pi)
C23_AzimuthInRange ==
    (op = "itrf2azel" /\ pc = "done") => (0 <= ret.value[2] /\ ret.value[2] < 2 * Pi)

---------------------------------------------------------------------------
(* noirlab.py: retrieve_infos. *)

\* exposure numbers are 0..MaxExpnum
MaxExpnum == 4

RetrieveInfosArgs == [expnum_min : 0..MaxExpnum, expnum_max : 0..MaxExpnum]

\* lines 111-112
natroot == "https://astroarchive.noirlab.edu"
adsurl == natroot \o "/api/adv_search"

\* A string literal with replacement fields is a sequence of pieces: text,
\* or a field holding what stands between its braces.
Text(t) == [field |-> FALSE, text |-> t, value |-> 0]
Field(v) == [field |-> TRUE, text |-> "", value |-> v]

\* f'...': every field is an expression, evaluated where the literal stands,
\* and replaced by the text of its value; the result is a plain string
RECURSIVE FString(_)
FString(pieces) ==
    IF pieces = <<>> THEN ""
    ELSE (IF Head(pieces).field THEN ToString(Head(pieces).value) ELSE Head(pieces).text)
         \o FString(Tail(pieces))

\* str.format(*fmt_args): every field {k} of the string is replaced by the
\* text of argument k (numbered from 0)
RECURSIVE Format(_, _)
Format(pieces, fmt_args) ==
    IF pieces = <<>> THEN ""
    ELSE (IF Head(pieces).field THEN ToString(fmt_args[Head(pieces).value + 1])
          ELSE Head(pieces).text)
         \o Format(Tail(pieces), fmt_args)

\* line 134: f'{adsurl}/find/?limit={0}'.format(expnum_max-expnum_min+1); the
\* f-string is evaluated first, {0} being the expression 0, and format is
\* applied to its result, a string without fields
ApiUrl(expnum_min, expnum_max) ==
    Format(<<Text(FString(<<Text(adsurl \o "/find/?limit="), Field(0)>>))>>,
           <<expnum_max - expnum_min + 1>>)

\* lines 111-134: the search range of the query and the URL
RetrieveInfosBuild ==
    /\ op = "retrieve_infos"
    /\ pc = "call"
    /\ locals' = [search_expnum |-> <<args.expnum_min, args.expnum_max + 1>>,
                  apiurl |-> ApiUrl(args.expnum_min, args.expnum_max),
                  data |-> <<>>]
    /\ pc' = "post"
    /\ UNCHANGED <<op, args, solver, ret, env>>

\* lines 136-137: the archive answers with a header row and any number of the
\* exposures of the range, or the request or the decoding of the answer fails
RetrieveInfosPost ==
    /\ op = "retrieve_infos"
    /\ pc = "post"
    /\ \/ \E n \in 0..(MaxExpnum + 1) :
             /\ n <= locals.search_expnum[2] - locals.search_expnum[1]
             /\ locals' = [locals EXCEPT
                              !.data = <<"HEADER">> \o
                                       [k \in 1..n |-> locals.search_expnum[1] + k - 1]]
             /\ pc' = "result"
             /\ ret' = ret
       \/ \E e \in {"ConnectionError", "JSONDecodeError"} :
             /\ ret' = Raise(e)
             /\ pc' = "done"
             /\ locals' = locals
    /\ UNCHANGED <<op, args, solver, env>>

\* lines 138-145
RetrieveInfosReturn ==
    /\ op = "retrieve_infos"
    /\ pc = "result"
    /\ ret' = Return(IF Len(Tail(locals.data)) = 0 THEN <<"None">> ELSE Tail(locals.data))
    /\ pc' = "done"
    /\ UNCHANGED <<op, args, locals, solver, env>>

InitNoirlab ==
    /\ op = "retrieve_infos"
    /\ args \in RetrieveInfosArgs
    /\ pc = "call"
    /\ locals = NoLocals
    /\ solver = NoSolver
    /\ ret = NoRet
    /\ env = NoEnv

NextNoirlab ==
    \/ RetrieveInfosBuild
    \/ RetrieveInfosPost
    \/ RetrieveInfosReturn

SpecNoirlab == InitNoirlab /\ [][NextNoirlab]_vars

\* C27: for expnum_min <= expnum_max the request URL carries
\* limit = expnum_max - expnum_min + 1
C27_LimitCoversRange ==
    (op = "retrieve_infos" /\ pc # "call" /\ args.expnum_min <= args.expnum_max) =>
        locals.apiurl = adsurl \o "/find/?limit="
                          \o ToString(args.expnum_max - args.expnum_min + 1)

---------------------------------------------------------------------------
(* Further properties of LEOphotometry.py. *)

AutoMasked == op = "img_mask" /\ pc = "done" /\ ret.kind = "return" /\ args.threshold = TNone

IsMinimum(image_data, i, j) ==
    \A k \in 1..NRows(image_data) : \A l \in 1..NCols(image_data) :
        image_data[i][j] <= image_data[k][l]

IsConstant(image_data) ==
    \A i, k \in 1..NRows(image_data) : \A j, l \in 1..NCols(image_data) :
        image_data[i][j] = image_data[k][l]

\* C28: with the automatic threshold img_mask leaves every pixel of minimum
\* value unmasked, so it never masks the whole image, and it masks no pixel of
\* a constant image
C28_MinimumNeverMasked ==
    AutoMasked =>
        LET image_data == args.image_data
            mask == ret.value.mask
        IN  /\ \A i \in 1..NRows(image_data) : \A j \in 1..NCols(image_data) :
                   IsMinimum(image_data, i, j) => ~mask[i][j]
            /\ \E i \in 1..NRows(image_data) : \E j \in 1..NCols(image_data) : ~mask[i][j]
            /\ IsConstant(image_data) =>
                   \A i \in 1..NRows(image_data) : \A j \in 1..NCols(image_data) : ~mask[i][j]

\* an image whose brightest pixel is masked and whose faintest pixels are not
C28_Witness ==
    /\ AutoMasked
    /\ ~IsConstant(args.image_data)
    /\ \E i \in 1..NRows(args.image_data) : \E j \in 1..NCols(args.image_data) :
           ret.value.mask[i][j]
    /\ \E i \in 1..NRows(args.image_data) : \E j \in 1..NCols(args.image_data) :
           IsMinimum(args.image_data, i, j) /\ ~ret.value.mask[i][j]

\* the uniform offsets added to an image
MaxOffset == 2
Offsets == (-MaxOffset)..MaxOffset

\* the image with c added to every pixel
WithOffset(image_data, c) ==
    [i \in 1..NRows(image_data) |-> [j \in 1..NCols(image_data) |-> image_data[i][j] + c]]

\* C29: for a valid extent, photometry on the image with a constant c added
\* to every pixel returns the same count_pix2 and count_arc2 as on the image
C29_OffsetInvariant ==
    (PhotometryReturned /\ ValidExtent) =>
        \A c \in Offsets :
            LET shifted == photometry(WithOffset(args.image_data, c), args.range_min,
                                      args.range_max, BindArcPerPix(args.arc_per_pix),
                                      args.zeropoint).ret
            IN  /\ shifted.kind = "return"
                /\ shifted.value.count_pix2 = ret.value.count_pix2
                /\ shifted.value.count_arc2 = ret.value.count_arc2

\* a streak brighter than a background that is not flat, more than one pixel
\* off the streak
C29_Witness ==
    /\ PhotometryReturned
    /\ ValidExtent
    /\ NRows(args.image_data) = MaxRows
    /\ args.range_min = 1
    /\ args.range_max = 1
    /\ args.image_data[1] # args.image_data[MaxRows]
    /\ RLt(IntR(0), ret.value.count_pix2)

===========================================================================
